---- MODULE Spec2Model ----
(***************************************************************************)
(* Football ELT pipeline: the extractors (extractor/foot_data_enhanced.py, *)
(* extractor/foot_data.py, extractor_bis/foot_data_bis.py), the landing    *)
(* directory they write, the PostgreSQL loaders and the two Airflow DAGs.  *)
(***************************************************************************)
EXTENDS Integers, Sequences, FiniteSets, TLC

\* ------------------------------------------------------------------ inputs

\* fetch_all_matches defaults, also the arguments the enhanced DAG passes.
Leagues == <<"PL", "FL1", "PD">>
Seasons == <<2023, 2024>>

\* FootballDataExtractor.__init__(max_retries=3)
MaxRetries == 3

\* Bound: the largest number of matches one upstream response carries.
MaxMatches == 1

LeagueSet == {Leagues[i] : i \in 1..Len(Leagues)}
SeasonSet == {Seasons[i] : i \in 1..Len(Seasons)}
Partitions == LeagueSet \X SeasonSet

\* for season in seasons: for league in leagues
AllPartitions ==
    [i \in 1..(Len(Seasons) * Len(Leagues)) |->
        <<Leagues[((i - 1) % Len(Leagues)) + 1], Seasons[((i - 1) \div Len(Leagues)) + 1]>>]

\* for code in leagues (one season per call)
SeasonPartitions(s) == [i \in 1..Len(Leagues) |-> <<Leagues[i], s>>]

\* Rows written by foot_data.py carry no season_year column.
NoSeasonYear == 0

\* ------------------------------------------------------------ landing files

\* Names of the artifacts: (kind, league, season).
AllMatchesParquet(s) == <<"all_matches", "", s>>
MatchesJson(l, s) == <<"matches_json", l, s>>
RawMatchesJson(l, s) == <<"raw_matches_json", l, s>>
MatchesParquet(s) == <<"matches", "", s>>
CompetitionsParquet == <<"competitions", "", NoSeasonYear>>

FileNames ==
    {AllMatchesParquet(s) : s \in SeasonSet}
        \cup {MatchesJson(p[1], p[2]) : p \in Partitions}
        \cup {RawMatchesJson(p[1], p[2]) : p \in Partitions}
        \cup {MatchesParquet(s) : s \in SeasonSet}
        \cup {CompetitionsParquet}

Missing == [exists |-> FALSE, corrupt |-> FALSE, rows |-> <<>>]
Written(rows) == [exists |-> TRUE, corrupt |-> FALSE, rows |-> rows]

\* A file that exists and that pd.read_parquet cannot parse.
Corrupt == [exists |-> TRUE, corrupt |-> TRUE, rows |-> <<>>]

\* The matches list of a 200 response for (league, season) holding k matches.
ApiMatches(l, s, k) == [j \in 1..k |-> [id |-> <<l, s, j>>]]

\* pd.json_normalize(data["matches"]) then the two tag columns.
TagRows(matches, league, season) ==
    [j \in 1..Len(matches) |->
        [id |-> matches[j].id, competition_code |-> league, season_year |-> season]]

\* A split that keeps the rows of every season.
SeasonData_unfiltered(combined, s) == combined

\* combined[combined['season_year'] == season]
SeasonData(combined, s) == SelectSeq(combined, LAMBDA r : r.season_year = s)

VARIABLES
    impl,               \* which extractor module runs
    pc,                 \* position of the extractor
    parts,              \* the partitions the running call iterates, in order
    part,               \* index of the current partition in parts
    retry_count,        \* _make_request's retry_count argument
    gets,               \* GET requests issued for the current partition
    sleeps,             \* rate-limit waits performed for the current partition
    resp,               \* status codes received for the current partition
    reqResult,          \* how the request of the current partition ended
    all_frames,         \* all_frames / frames, concatenated
    failed_extractions, \* fetch_all_matches' failed_extractions list
    outcome,            \* per partition: none, ok, empty, failed
    requested,          \* partitions for which a GET was issued
    result,             \* how the extraction call ended: none, returned, raised
    cooldowns,          \* time.sleep(6) calls performed
    files,              \* the landing (and raw) directory
    db,                 \* the tables of the bronze schema: table name -> rows
    lpc,                \* position of the loader
    seasons,            \* load_all_matches' seasons argument
    season_idx,         \* index of the season the loop of load_all_matches is at
    total_loaded,       \* load_all_matches' total_loaded
    failed_loads,       \* load_all_matches' failed_loads
    loaded_now,         \* seasons whose rows the running call has written
    calls,              \* completed calls of load_all_matches
    first_call,         \* what the first completed call was given and left behind
    dag,                \* which DAG runs: enhanced, basic
    upstream_fail,      \* the partitions whose request fails, in every run
    upstream_n,         \* per season: the matches each answering league returns
    upstream_comp,      \* /competitions: -1 fails, else the competitions returned
    task,               \* the task the DAG run is at
    tries,              \* failed tries of that task
    runs,               \* DAG runs that ended
    run_status,         \* final status of the last DAG run that ended
    rows_after_load,    \* bronze matches row count after each completed load task
    db_errors,          \* whether a database error has occurred
    gold,               \* gold.fact_matches as the transformation left it
    completed,          \* tasks of the current DAG run that have succeeded
    validation_results, \* validate_extracted_data's validation_results
    writer,             \* the _save_json / _save_parquet call under way, if any
    running             \* load_all_matches executions that run at the same time

extractVars ==
    <<impl, pc, parts, part, retry_count, gets, sleeps, resp, reqResult, all_frames,
      failed_extractions, outcome, requested, result, cooldowns>>

loadVars ==
    <<db, lpc, seasons, season_idx, total_loaded, failed_loads, loaded_now, calls,
      first_call>>

dagVars ==
    <<dag, upstream_fail, upstream_n, upstream_comp, task, tries, runs, run_status,
      rows_after_load, db_errors, gold, completed, validation_results>>

vars == <<extractVars, files, loadVars, dagVars, writer, running>>

cur == parts[part]

Impls == {"enhanced", "foot_data", "foot_data_bis"}

TableNames == {"matches", "all_matches", "competitions"}

NoCall == [done |-> FALSE, seasons |-> <<>>, failed |-> <<>>, matches |-> <<>>]

\* The loader before any call, on an empty database.
LoaderIdle ==
    /\ db = [tb \in TableNames |-> <<>>]
    /\ lpc = "idle"
    /\ seasons = <<>>
    /\ season_idx = 0
    /\ total_loaded = 0
    /\ failed_loads = <<>>
    /\ loaded_now = {}
    /\ calls = 0
    /\ first_call = NoCall

\* The extractor before any call.
ExtractorIdle ==
    /\ pc = "idle"
    /\ parts = <<>>
    /\ part = 0
    /\ retry_count = 0
    /\ gets = 0
    /\ sleeps = 0
    /\ resp = <<>>
    /\ reqResult = "none"
    /\ all_frames = <<>>
    /\ failed_extractions = <<>>
    /\ outcome = [p \in Partitions |-> "none"]
    /\ requested = {}
    /\ result = "none"
    /\ cooldowns = 0

NoGold == [exists |-> FALSE, row_count |-> 0]

\* No file is being written.
WriterIdle ==
    writer = [pc |-> "idle", file |-> <<>>, data |-> <<>>, prev |-> Missing, writes |-> 0]

\* The two processes that may call load_all_matches at the same time: the
\* load_to_bronze task of a DAG run and main() of load_postgres_enhanced.py.
Executions == {1, 2}

\* No load_all_matches execution runs beside another.
RunningIdle ==
    running = [i \in Executions |->
                  [pc |-> "idle", season_idx |-> 1, total_loaded |-> 0, failed_loads |-> <<>>]]

\* No DAG run is under way.
DagIdle ==
    /\ dag = "enhanced"
    /\ upstream_fail = {}
    /\ upstream_n = [s \in SeasonSet |-> 0]
    /\ upstream_comp = 0
    /\ task = "idle"
    /\ tries = 0
    /\ runs = 0
    /\ run_status = "none"
    /\ rows_after_load = <<>>
    /\ db_errors = FALSE
    /\ gold = NoGold
    /\ completed = {}
    /\ validation_results = <<>>

Init ==
    /\ impl \in Impls
    /\ ExtractorIdle
    /\ files = [f \in FileNames |-> Missing]
    /\ LoaderIdle
    /\ DagIdle
    /\ WriterIdle
    /\ RunningIdle

\* ---------------------------------------------- foot_data_enhanced.py

\* fetch_all_matches, lines 165-180: the lists are emptied and the loops entered.
fetch_all_matches ==
    /\ impl = "enhanced"
    /\ pc = "idle"
    /\ parts' = AllPartitions
    /\ part' = 1
    /\ pc' = "get"
    /\ retry_count' = 0
    /\ gets' = 0
    /\ sleeps' = 0
    /\ resp' = <<>>
    /\ reqResult' = "pending"
    /\ all_frames' = <<>>
    /\ failed_extractions' = <<>>
    /\ UNCHANGED <<impl, outcome, requested, result, cooldowns, files>>
    /\ UNCHANGED <<loadVars, dagVars, writer, running>>

\* A _save_json that writes under a second name when the artifact already exists.
save_json_accumulating(fs, l, s, matches) ==
    IF fs[MatchesJson(l, s)].exists
      THEN [fs EXCEPT ![RawMatchesJson(l, s)] = Written(matches)]
      ELSE [fs EXCEPT ![MatchesJson(l, s)] = Written(matches)]

\* _save_json(data, f"matches_{league_code}_{season}.json")
save_json(fs, l, s, matches) == [fs EXCEPT ![MatchesJson(l, s)] = Written(matches)]

\* A fetch_matches_for_league that loses the rows of a successful response.
league_frame_lost(l, s, matches) == <<>>

\* fetch_matches_for_league after _make_request returned data: the frame it returns.
league_frame(l, s, matches) ==
    IF Len(matches) = 0 THEN <<>> ELSE TagRows(matches, l, s)

\* _make_request: response 200; fetch_matches_for_league saves the JSON and
\* returns the frame; fetch_all_matches appends it when it is not empty.
make_request_200 ==
    /\ impl = "enhanced"
    /\ pc = "get"
    /\ \E k \in 0..MaxMatches :
        LET l == cur[1]
            s == cur[2]
            matches == ApiMatches(l, s, k)
            df == league_frame(l, s, matches)
        IN  /\ files' = save_json(files, l, s, matches)
            /\ all_frames' = IF df # <<>> THEN all_frames \o df ELSE all_frames
            /\ outcome' = [outcome EXCEPT ![cur] = IF k = 0 THEN "empty" ELSE "ok"]
    /\ gets' = gets + 1
    /\ resp' = Append(resp, "200")
    /\ reqResult' = "returned"
    /\ requested' = requested \cup {cur}
    /\ pc' = "sleep"
    /\ UNCHANGED <<impl, parts, part, retry_count, sleeps, failed_extractions, result,
                   cooldowns>>
    /\ UNCHANGED <<loadVars, dagVars, writer, running>>

\* An off-by-one retry guard: retry_count <= self.max_retries.
may_retry_off_by_one(rc) == rc <= MaxRetries

\* if retry_count < self.max_retries
may_retry(rc) == rc < MaxRetries

\* _make_request: response 429 below the retry bound: sleep, then call itself.
make_request_429_retry ==
    /\ impl = "enhanced"
    /\ pc = "get"
    /\ may_retry(retry_count)
    /\ gets' = gets + 1
    /\ sleeps' = sleeps + 1
    /\ retry_count' = retry_count + 1
    /\ resp' = Append(resp, "429")
    /\ requested' = requested \cup {cur}
    /\ UNCHANGED <<impl, pc, parts, part, reqResult, all_frames, failed_extractions,
                   outcome, result, cooldowns, files>>
    /\ UNCHANGED <<loadVars, dagVars, writer, running>>

\* fetch_matches_for_league, lines 160-163: the exception is logged and an empty
\* frame returned, so the except branch of fetch_all_matches (lines 187-190) is
\* never entered and failed_extractions stays as it is.
request_failed(status) ==
    /\ gets' = gets + 1
    /\ resp' = Append(resp, status)
    /\ reqResult' = "raised"
    /\ requested' = requested \cup {cur}
    /\ outcome' = [outcome EXCEPT ![cur] = "failed"]
    /\ pc' = "sleep"
    /\ UNCHANGED <<impl, parts, part, retry_count, sleeps, all_frames,
                   failed_extractions, result, cooldowns, files>>

\* _make_request: response 429 with the retries used up: HTTPStatusError.
make_request_429_raise ==
    /\ impl = "enhanced"
    /\ pc = "get"
    /\ ~may_retry(retry_count)
    /\ request_failed("429")
    /\ UNCHANGED <<loadVars, dagVars, writer, running>>

\* _make_request: raise_for_status on 4xx/5xx, or a RequestError (timeout).
make_request_error ==
    /\ impl = "enhanced"
    /\ pc = "get"
    /\ \E status \in {"4xx", "5xx", "timeout"} : request_failed(status)
    /\ UNCHANGED <<loadVars, dagVars, writer, running>>

\* time.sleep(6), then the next (season, league) or the end of the loops.
inter_call_sleep ==
    /\ impl = "enhanced"
    /\ pc = "sleep"
    /\ cooldowns' = cooldowns + 1
    /\ IF part < Len(parts)
         THEN /\ part' = part + 1
              /\ pc' = "get"
              /\ retry_count' = 0
              /\ gets' = 0
              /\ sleeps' = 0
              /\ resp' = <<>>
              /\ reqResult' = "pending"
         ELSE /\ pc' = "combine"
              /\ UNCHANGED <<part, retry_count, gets, sleeps, resp, reqResult>>
    /\ UNCHANGED <<impl, parts, all_frames, failed_extractions, outcome, requested,
                   result, files>>
    /\ UNCHANGED <<loadVars, dagVars, writer, running>>

\* A save that adds the season's rows to the rows the file already holds.
save_season_files_appending(fs, combined) ==
    [f \in FileNames |->
        IF \E s \in SeasonSet : f = AllMatchesParquet(s) /\ SeasonData(combined, s) # <<>>
          THEN Written(fs[f].rows \o SeasonData(combined, f[3]))
          ELSE fs[f]]

\* fetch_all_matches, lines 197-200: one parquet per season that has rows.
save_season_files(fs, combined) ==
    [f \in FileNames |->
        IF \E s \in SeasonSet : f = AllMatchesParquet(s) /\ SeasonData(combined, s) # <<>>
          THEN Written(SeasonData(combined, f[3]))
          ELSE fs[f]]

\* fetch_all_matches, lines 192-210.
combine_and_save ==
    /\ impl = "enhanced"
    /\ pc = "combine"
    /\ IF all_frames # <<>>
         THEN /\ files' = save_season_files(files, all_frames)
              /\ result' = "returned"
         ELSE /\ result' = "raised"
              /\ UNCHANGED files
    /\ pc' = "done"
    /\ UNCHANGED <<impl, parts, part, retry_count, gets, sleeps, resp, reqResult,
                   all_frames, failed_extractions, outcome, requested, cooldowns>>
    /\ UNCHANGED <<loadVars, dagVars, writer, running>>

\* -------------------------------------------------------- foot_data.py

\* The loop of fetch_matches_save moves to the next league, or leaves the loop.
next_league(after) ==
    IF part < Len(parts)
      THEN /\ part' = part + 1
           /\ pc' = "get"
           /\ retry_count' = 0
           /\ gets' = 0
           /\ sleeps' = 0
           /\ resp' = <<>>
           /\ reqResult' = "pending"
      ELSE /\ pc' = after
           /\ UNCHANGED <<part, retry_count, gets, sleeps, resp, reqResult>>

\* fetch_matches_save(season), lines 45-50.
foot_data_fetch_matches_save ==
    /\ impl = "foot_data"
    /\ pc = "idle"
    /\ \E s \in SeasonSet : parts' = SeasonPartitions(s)
    /\ part' = 1
    /\ pc' = "get"
    /\ retry_count' = 0
    /\ gets' = 0
    /\ sleeps' = 0
    /\ resp' = <<>>
    /\ reqResult' = "pending"
    /\ all_frames' = <<>>
    /\ UNCHANGED <<impl, failed_extractions, outcome, requested, result, cooldowns, files>>
    /\ UNCHANGED <<loadVars, dagVars, writer, running>>

\* lines 55-58: the first response is 429: sleep(61), then one more GET.
foot_data_get_429 ==
    /\ impl = "foot_data"
    /\ pc = "get"
    /\ gets = 0
    /\ gets' = gets + 1
    /\ sleeps' = sleeps + 1
    /\ resp' = Append(resp, "429")
    /\ requested' = requested \cup {cur}
    /\ UNCHANGED <<impl, pc, parts, part, retry_count, reqResult, all_frames,
                   failed_extractions, outcome, result, cooldowns, files>>
    /\ UNCHANGED <<loadVars, dagVars, writer, running>>

\* lines 59-67: a 200 (first or retried): JSON saved, the frame tagged with the
\* competition code only and appended when it has rows.
foot_data_get_200 ==
    /\ impl = "foot_data"
    /\ pc = "get"
    /\ \E k \in 0..MaxMatches :
        LET l == cur[1]
            s == cur[2]
            matches == ApiMatches(l, s, k)
        IN  /\ files' = save_json(files, l, s, matches)
            /\ all_frames' = all_frames \o TagRows(matches, l, NoSeasonYear)
            /\ outcome' = [outcome EXCEPT ![cur] = IF k = 0 THEN "empty" ELSE "ok"]
    /\ gets' = gets + 1
    /\ resp' = Append(resp, "200")
    /\ reqResult' = "returned"
    /\ requested' = requested \cup {cur}
    /\ pc' = "sleep"
    /\ UNCHANGED <<impl, parts, part, retry_count, sleeps, failed_extractions, result,
                   cooldowns>>
    /\ UNCHANGED <<loadVars, dagVars, writer, running>>

\* lines 59, 69-71: raise_for_status (4xx, 5xx, or 429 on the retried GET) or a
\* timeout raises httpx.HTTPError: printed, and the loop continues without sleep(6).
foot_data_get_error ==
    /\ impl = "foot_data"
    /\ pc = "get"
    /\ \E status \in {"429", "4xx", "5xx", "timeout"} :
        /\ status = "429" => gets = 1
        /\ resp' = Append(resp, status)
    /\ gets' = gets + 1
    /\ requested' = requested \cup {cur}
    /\ outcome' = [outcome EXCEPT ![cur] = "failed"]
    /\ IF part < Len(parts)
         THEN /\ part' = part + 1
              /\ pc' = "get_next"
         ELSE /\ pc' = "save"
              /\ UNCHANGED part
    /\ reqResult' = "raised"
    /\ UNCHANGED <<impl, parts, retry_count, sleeps, all_frames, failed_extractions,
                   result, cooldowns, files>>
    /\ UNCHANGED <<loadVars, dagVars, writer, running>>

\* line 51-53: the next iteration starts its request.
foot_data_continue ==
    /\ impl = "foot_data"
    /\ pc = "get_next"
    /\ pc' = "get"
    /\ retry_count' = 0
    /\ gets' = 0
    /\ sleeps' = 0
    /\ resp' = <<>>
    /\ reqResult' = "pending"
    /\ UNCHANGED <<impl, parts, part, all_frames, failed_extractions, outcome, requested,
                   result, cooldowns, files>>
    /\ UNCHANGED <<loadVars, dagVars, writer, running>>

\* line 68: time.sleep(6) after a 200.
foot_data_sleep ==
    /\ impl = "foot_data"
    /\ pc = "sleep"
    /\ cooldowns' = cooldowns + 1
    /\ next_league("save")
    /\ UNCHANGED <<impl, parts, all_frames, failed_extractions, outcome, requested,
                   result, files>>
    /\ UNCHANGED <<loadVars, dagVars, writer, running>>

\* lines 72-76: all_matches_{season}.parquet is written when there are frames.
foot_data_save ==
    /\ impl = "foot_data"
    /\ pc = "save"
    /\ files' = IF all_frames # <<>>
                  THEN [files EXCEPT ![AllMatchesParquet(parts[1][2])] = Written(all_frames)]
                  ELSE files
    /\ result' = "returned"
    /\ pc' = "done"
    /\ UNCHANGED <<impl, parts, part, retry_count, gets, sleeps, resp, reqResult,
                   all_frames, failed_extractions, outcome, requested, cooldowns>>
    /\ UNCHANGED <<loadVars, dagVars, writer, running>>

\* ----------------------------------------------- extractor_bis/foot_data_bis.py

\* fetch_matches_save(season), lines 47-54.
bis_fetch_matches_save ==
    /\ impl = "foot_data_bis"
    /\ pc = "idle"
    /\ \E s \in SeasonSet : parts' = SeasonPartitions(s)
    /\ part' = 1
    /\ pc' = "get"
    /\ retry_count' = 0
    /\ gets' = 0
    /\ sleeps' = 0
    /\ resp' = <<>>
    /\ reqResult' = "pending"
    /\ all_frames' = <<>>
    /\ UNCHANGED <<impl, failed_extractions, outcome, requested, result, cooldowns, files>>
    /\ UNCHANGED <<loadVars, dagVars, writer, running>>

\* lines 57-70: a 200: raw JSON saved under RAW_DIR, the frame appended when it
\* has rows, and the next league requested at once.
bis_get_200 ==
    /\ impl = "foot_data_bis"
    /\ pc = "get"
    /\ \E k \in 0..MaxMatches :
        LET l == cur[1]
            s == cur[2]
            matches == ApiMatches(l, s, k)
        IN  /\ files' = [files EXCEPT ![RawMatchesJson(l, s)] = Written(matches)]
            /\ all_frames' = all_frames \o TagRows(matches, l, NoSeasonYear)
            /\ outcome' = [outcome EXCEPT ![cur] = IF k = 0 THEN "empty" ELSE "ok"]
    /\ requested' = requested \cup {cur}
    /\ IF part < Len(parts)
         THEN /\ part' = part + 1
              /\ UNCHANGED pc
         ELSE /\ pc' = "save"
              /\ UNCHANGED part
    /\ UNCHANGED <<impl, parts, retry_count, gets, sleeps, resp, reqResult,
                   failed_extractions, result, cooldowns>>
    /\ UNCHANGED <<loadVars, dagVars, writer, running>>

\* lines 58, 77-79: raise_for_status or a timeout raises httpx.HTTPError inside
\* the try that encloses the whole loop: it is printed and raised again.
bis_get_error ==
    /\ impl = "foot_data_bis"
    /\ pc = "get"
    /\ \E status \in {"429", "4xx", "5xx", "timeout"} : resp' = <<status>>
    /\ requested' = requested \cup {cur}
    /\ outcome' = [outcome EXCEPT ![cur] = "failed"]
    /\ reqResult' = "raised"
    /\ result' = "raised"
    /\ pc' = "done"
    /\ UNCHANGED <<impl, parts, part, retry_count, gets, sleeps, all_frames,
                   failed_extractions, cooldowns, files>>
    /\ UNCHANGED <<loadVars, dagVars, writer, running>>

\* lines 71-76: matches_{season}.parquet is written when there are frames.
bis_save ==
    /\ impl = "foot_data_bis"
    /\ pc = "save"
    /\ files' = IF all_frames # <<>>
                  THEN [files EXCEPT ![MatchesParquet(parts[1][2])] = Written(all_frames)]
                  ELSE files
    /\ result' = "returned"
    /\ pc' = "done"
    /\ UNCHANGED <<impl, parts, part, retry_count, gets, sleeps, resp, reqResult,
                   all_frames, failed_extractions, outcome, requested, cooldowns>>
    /\ UNCHANGED <<loadVars, dagVars, writer, running>>

Next ==
    \/ fetch_all_matches
    \/ make_request_200
    \/ make_request_429_retry
    \/ make_request_429_raise
    \/ make_request_error
    \/ inter_call_sleep
    \/ combine_and_save
    \/ foot_data_fetch_matches_save
    \/ foot_data_get_429
    \/ foot_data_get_200
    \/ foot_data_get_error
    \/ foot_data_continue
    \/ foot_data_sleep
    \/ foot_data_save
    \/ bis_fetch_matches_save
    \/ bis_get_200
    \/ bis_get_error
    \/ bis_save

Spec == Init /\ [][Next]_vars

\* ------------------------------------------------------------------ helpers

Range(seq) == {seq[i] : i \in 1..Len(seq)}

\* The frame holds at least one row that upstream returned for partition p.
HasRows(frame, p) ==
    \E i \in 1..Len(frame) : frame[i].id[1] = p[1] /\ frame[i].id[2] = p[2]

\* A classification that reports a zero-row file as missing.
file_status_empty_as_missing(f) ==
    IF ~f.exists \/ (~f.corrupt /\ f.rows = <<>>)
      THEN "MISSING"
      ELSE IF f.corrupt THEN "CORRUPTED" ELSE "OK"

\* validate_extracted_data, lines 126-137: the status of one required file.
file_status(f) ==
    IF ~f.exists
      THEN "MISSING"
      ELSE IF f.corrupt
        THEN "CORRUPTED"
        ELSE IF f.rows = <<>> THEN "EMPTY" ELSE "OK"

All429(r) == \A i \in 1..Len(r) : r[i] = "429"

\* -------------------------------------------- extractor/load_postgres_enhanced.py

\* Bound: the longest seasons list passed to load_all_matches.
MaxSeasons == 3

\* Bound: calls of load_all_matches in one behaviour.
MaxLoadCalls == 2

SeasonLists == UNION {[1..n -> SeasonSet] : n \in 1..MaxSeasons}

\* An all_matches_{season}.parquet as an extraction leaves it: n rows of season s.
SeasonRows(s, n) == TagRows(ApiMatches(Leagues[1], s, n), Leagues[1], s)

\* A landing directory holding, per season, no flattened artifact (0) or one of
\* n[s] rows.
LandingWith(n) ==
    [f \in FileNames |->
        IF \E s \in SeasonSet : f = AllMatchesParquet(s) /\ n[s] > 0
          THEN Written(SeasonRows(f[3], n[f[3]]))
          ELSE Missing]

\* The landing directory fs in which the artifacts of the seasons in e exist and
\* hold no row.
WithEmpty(fs, e) ==
    [f \in FileNames |->
        IF \E s \in e : f = AllMatchesParquet(s) THEN Written(<<>>) ELSE fs[f]]

InitLoad ==
    /\ impl = "enhanced"
    /\ ExtractorIdle
    /\ \E n \in [SeasonSet -> {0, MaxMatches}] :
          \E e \in SUBSET {s \in SeasonSet : n[s] = 0} :
              files = WithEmpty(LandingWith(n), e)
    /\ LoaderIdle
    /\ DagIdle
    /\ WriterIdle
    /\ RunningIdle

\* df.to_sql(..., if_exists=...): 'replace' drops the whole table first.
to_sql(table, rows, if_exists) ==
    IF if_exists = "replace" THEN rows ELSE table \o rows

\* A load that skips _validate_dataframe and writes a zero-row frame as well.
load_parquet_to_postgres_unvalidated(fs, d, file, table, if_exists, dberr) ==
    IF ~fs[file].exists \/ fs[file].corrupt
      THEN [db |-> d, rows |-> 0, raised |-> TRUE]
      ELSE IF dberr
        THEN [db |-> d, rows |-> 0, raised |-> TRUE]
        ELSE [db |-> [d EXCEPT ![table] = to_sql(d[table], fs[file].rows, if_exists)],
              rows |-> Len(fs[file].rows),
              raised |-> FALSE]

\* load_parquet_to_postgres, lines 104-149. dberr: _create_schema or to_sql raises
\* SQLAlchemyError (the statement runs in one transaction: nothing is written).
load_parquet_to_postgres(fs, d, file, table, if_exists, dberr) ==
    IF ~fs[file].exists \/ fs[file].corrupt
      THEN [db |-> d, rows |-> 0, raised |-> TRUE]
      ELSE IF fs[file].rows = <<>>
        THEN [db |-> d, rows |-> 0, raised |-> FALSE]
        ELSE IF dberr
          THEN [db |-> d, rows |-> 0, raised |-> TRUE]
          ELSE [db |-> [d EXCEPT ![table] = to_sql(d[table], fs[file].rows, if_exists)],
                rows |-> Len(fs[file].rows),
                raised |-> FALSE]

\* 'append' if season != seasons[0] else 'replace'
if_exists_for(ss, season) == IF season # ss[1] THEN "append" ELSE "replace"

\* load_all_matches(seasons), lines 151-157.
load_all_matches ==
    /\ lpc \in {"idle", "done"}
    /\ calls < MaxLoadCalls
    /\ \E ss \in SeasonLists : seasons' = ss
    /\ season_idx' = 1
    /\ total_loaded' = 0
    /\ failed_loads' = <<>>
    /\ loaded_now' = {}
    /\ lpc' = "loop"
    /\ UNCHANGED <<db, calls, first_call, files, extractVars, dagVars, writer, running>>

\* One iteration of the loop, lines 159-172.
load_season ==
    /\ lpc = "loop"
    /\ season_idx <= Len(seasons)
    /\ \E dberr \in BOOLEAN :
        LET season == seasons[season_idx]
            r == load_parquet_to_postgres(files, db, AllMatchesParquet(season), "matches",
                                          if_exists_for(seasons, season), dberr)
        IN  /\ db' = r.db
            /\ total_loaded' = IF r.raised THEN total_loaded ELSE total_loaded + r.rows
            /\ failed_loads' = IF r.raised THEN Append(failed_loads, season) ELSE failed_loads
            /\ loaded_now' = IF r.rows > 0 THEN loaded_now \cup {season} ELSE loaded_now
    /\ season_idx' = season_idx + 1
    /\ UNCHANGED <<lpc, seasons, calls, first_call, files, extractVars, dagVars, writer, running>>

\* lines 174-178: total_loaded is returned.
load_all_matches_return ==
    /\ lpc = "loop"
    /\ season_idx > Len(seasons)
    /\ lpc' = "done"
    /\ calls' = calls + 1
    /\ first_call' =
          IF first_call.done
            THEN first_call
            ELSE [done |-> TRUE, seasons |-> seasons, failed |-> failed_loads,
                  matches |-> db["matches"]]
    /\ UNCHANGED <<db, seasons, season_idx, total_loaded, failed_loads, loaded_now,
                   files, extractVars, dagVars, writer, running>>

NextLoad ==
    \/ load_all_matches
    \/ load_season
    \/ load_all_matches_return

SpecLoad == InitLoad /\ [][NextLoad]_vars

\* ------------------------------------------------------------ the Airflow DAGs
\* airflow/dags/football_elt_dag_enhanced.py and airflow/dags/football_elt_dag.py.
\* A DAG run is a chain of tasks; each task is one action. The upstream API is
\* fixed for the whole behaviour (upstream_fail, upstream_n, upstream_comp), so
\* that a second run sees the same upstream data as the first.

\* Bound: DAG runs in one behaviour.
MaxRuns == 2

\* default_args 'retries' of the two DAGs.
Retries(d) == IF d = "enhanced" THEN 2 ELSE 1

\* The bronze table the DAG's load task fills with matches.
BronzeMatches(d) == IF d = "enhanced" THEN "matches" ELSE "all_matches"

InitPipeline ==
    /\ impl = "enhanced"
    /\ ExtractorIdle
    /\ files = [f \in FileNames |-> Missing]
    /\ LoaderIdle
    /\ dag \in {"enhanced", "basic"}
    /\ upstream_fail \in SUBSET Partitions
    /\ upstream_n \in [SeasonSet -> {0, MaxMatches}]
    /\ upstream_comp \in {-1, 0, MaxMatches}
    /\ task = "idle"
    /\ tries = 0
    /\ runs = 0
    /\ run_status = "none"
    /\ rows_after_load = <<>>
    /\ db_errors = FALSE
    /\ gold = NoGold
    /\ completed = {}
    /\ validation_results = <<>>
    /\ WriterIdle
    /\ RunningIdle

\* The task raised: Airflow tries it again while retries are left, and fails the
\* DAG run after that.
task_raises ==
    IF tries < Retries(dag)
      THEN /\ tries' = tries + 1
           /\ UNCHANGED <<task, runs, run_status, completed>>
      ELSE /\ task' = "idle"
           /\ tries' = 0
           /\ runs' = runs + 1
           /\ run_status' = "FAILED"
           /\ UNCHANGED completed

\* A scheduler that starts the load without waiting for the validation task.
task_succeeds_no_barrier(next) ==
    /\ task' = (IF next = "validate" THEN "load" ELSE next)
    /\ tries' = 0
    /\ completed' = completed \cup {task}
    /\ UNCHANGED <<runs, run_status>>

\* The task returned: the next task of the chain is scheduled.
task_succeeds(next) ==
    /\ task' = next
    /\ tries' = 0
    /\ completed' = completed \cup {task}
    /\ UNCHANGED <<runs, run_status>>

\* A scheduled (or manually triggered) DAG run starts.
dag_run ==
    /\ task = "idle"
    /\ runs < MaxRuns
    /\ task' = "extract"
    /\ tries' = 0
    /\ completed' = {}
    /\ validation_results' = <<>>
    /\ UNCHANGED <<dag, upstream_fail, upstream_n, upstream_comp>>
    /\ UNCHANGED <<runs, run_status, rows_after_load, db_errors, gold>>
    /\ UNCHANGED <<writer, running, extractVars, files, loadVars>>

\* The frames the extraction loop collects over the partitions ps[i..], given
\* which requests fail and how many matches a season's answers carry.
RECURSIVE frames_of(_, _, _, _, _)
frames_of(ps, i, fail, n, enhanced) ==
    IF i > Len(ps)
      THEN <<>>
      ELSE LET l == ps[i][1]
               s == ps[i][2]
               df == IF ps[i] \in fail
                       THEN <<>>
                       ELSE IF enhanced
                         THEN league_frame(l, s, ApiMatches(l, s, n[s]))
                         ELSE TagRows(ApiMatches(l, s, n[s]), l, NoSeasonYear)
           IN  df \o frames_of(ps, i + 1, fail, n, enhanced)

\* _save_json for every partition whose request was answered.
json_saved(fs, fail, n) ==
    [f \in FileNames |->
        IF \E p \in Partitions \ fail : f = MatchesJson(p[1], p[2])
          THEN Written(ApiMatches(f[2], f[3], n[f[3]]))
          ELSE fs[f]]

\* fetch_competitions: competitions.parquet with the competitions returned.
competitions_saved(fs, k) ==
    [fs EXCEPT ![CompetitionsParquet] = Written(TagRows(ApiMatches("", NoSeasonYear, k),
                                                        "", NoSeasonYear))]

\* extract_football_data of the enhanced DAG, lines 70-104: fetch_competitions,
\* then fetch_all_matches(['PL', 'FL1', 'PD'], [2023, 2024]); returns
\* {'status': 'success', ...} or raises what they raise.
extract_football_data ==
    /\ dag = "enhanced"
    /\ task = "extract"
    /\ LET frames == frames_of(AllPartitions, 1, upstream_fail, upstream_n, TRUE)
           saved == json_saved(competitions_saved(files, upstream_comp), upstream_fail,
                               upstream_n)
       IN  IF upstream_comp < 0
             THEN /\ UNCHANGED files
                  /\ task_raises
             ELSE IF frames = <<>>
               THEN /\ files' = saved
                    /\ task_raises
               ELSE /\ files' = save_season_files(saved, frames)
                    /\ task_succeeds("validate")
    /\ UNCHANGED <<dag, upstream_fail, upstream_n, upstream_comp, validation_results>>
    /\ UNCHANGED <<rows_after_load, db_errors, gold>>
    /\ UNCHANGED <<writer, running, extractVars, loadVars>>

\* fetch_matches_save(season) of foot_data.py as a whole: the JSON of every
\* answered league, and all_matches_{season}.parquet when a frame has rows.
foot_data_saved(fs, s, fail, n) ==
    LET frames == frames_of(SeasonPartitions(s), 1, fail, n, FALSE)
        saved == [f \in FileNames |->
                    IF \E l \in LeagueSet : f = MatchesJson(l, s) /\ <<l, s>> \notin fail
                      THEN Written(ApiMatches(f[2], s, n[s]))
                      ELSE fs[f]]
    IN  IF frames # <<>>
          THEN [saved EXCEPT ![AllMatchesParquet(s)] = Written(frames)]
          ELSE saved

\* extract_football_data of the basic DAG, lines 28-39: fetch_competitions, then
\* fetch_matches_save(2023) and fetch_matches_save(2024).
basic_extract_football_data ==
    /\ dag = "basic"
    /\ task = "extract"
    /\ IF upstream_comp < 0
         THEN /\ UNCHANGED files
              /\ task_raises
         ELSE /\ files' = foot_data_saved(
                              foot_data_saved(competitions_saved(files, upstream_comp),
                                              Seasons[1], upstream_fail, upstream_n),
                              Seasons[2], upstream_fail, upstream_n)
              /\ task_succeeds("load")
    /\ UNCHANGED <<dag, upstream_fail, upstream_n, upstream_comp, validation_results>>
    /\ UNCHANGED <<rows_after_load, db_errors, gold>>
    /\ UNCHANGED <<writer, running, extractVars, loadVars>>

\* validate_extracted_data, lines 115-119.
required_files ==
    {AllMatchesParquet(Seasons[1]), AllMatchesParquet(Seasons[2]), CompetitionsParquet}

\* validate_extracted_data, lines 123-140: the entry written for one file,
\* 'MISSING', 'CORRUPTED', 'EMPTY' or 'OK (n rows)'.
validation_result(f) ==
    IF file_status(f) = "OK" THEN <<"OK", Len(f.rows)>> ELSE <<file_status(f)>>

\* A validation that also fails the task on an EMPTY artifact.
validate_extracted_data_strict ==
    /\ dag = "enhanced"
    /\ task = "validate"
    /\ LET results == [f \in required_files |-> validation_result(files[f])]
       IN  /\ validation_results' = results
           /\ IF \E f \in required_files : results[f][1] # "OK"
                THEN task_raises
                ELSE task_succeeds("load")
    /\ UNCHANGED <<dag, upstream_fail, upstream_n, upstream_comp>>
    /\ UNCHANGED <<rows_after_load, db_errors, gold>>
    /\ UNCHANGED <<writer, running, extractVars, files, loadVars>>

\* validate_extracted_data, lines 107-149: the mapping is built and pushed, then
\* the task raises when a value is MISSING or CORRUPTED.
validate_extracted_data ==
    /\ dag = "enhanced"
    /\ task = "validate"
    /\ LET results == [f \in required_files |-> validation_result(files[f])]
       IN  /\ validation_results' = results
           /\ IF \E f \in required_files : results[f][1] \in {"MISSING", "CORRUPTED"}
                THEN task_raises
                ELSE task_succeeds("load")
    /\ UNCHANGED <<dag, upstream_fail, upstream_n, upstream_comp>>
    /\ UNCHANGED <<rows_after_load, db_errors, gold>>
    /\ UNCHANGED <<writer, running, extractVars, files, loadVars>>

\* load_all_matches(ss) as a whole, from season ss[i] on; errs[i]: the database
\* fails while season ss[i] is loaded.
RECURSIVE load_all(_, _, _, _, _)
load_all(fs, d, ss, i, errs) ==
    IF i > Len(ss)
      THEN [db |-> d, total |-> 0, failed |-> <<>>]
      ELSE LET r == load_parquet_to_postgres(fs, d, AllMatchesParquet(ss[i]), "matches",
                                             if_exists_for(ss, ss[i]), errs[i])
               rest == load_all(fs, r.db, ss, i + 1, errs)
           IN  [db |-> rest.db,
                total |-> (IF r.raised THEN 0 ELSE r.rows) + rest.total,
                failed |-> (IF r.raised THEN <<ss[i]>> ELSE <<>>) \o rest.failed]

\* load_to_bronze of the enhanced DAG, lines 176-210. connerr: PostgreSQLLoader()
\* cannot connect; a failure of the competitions load is swallowed.
load_to_bronze ==
    /\ dag = "enhanced"
    /\ task = "load"
    /\ \E connerr \in BOOLEAN, comperr \in BOOLEAN, errs \in [1..Len(Seasons) -> BOOLEAN] :
        LET r == load_all(files, db, Seasons, 1, errs)
            c == load_parquet_to_postgres(files, r.db, CompetitionsParquet, "competitions",
                                          "replace", comperr)
        IN  /\ db_errors' = (db_errors \/ connerr \/ comperr \/ \E i \in DOMAIN errs : errs[i])
            /\ IF connerr
                 THEN /\ UNCHANGED <<db, rows_after_load>>
                      /\ task_raises
                 ELSE /\ db' = c.db
                      /\ rows_after_load' = Append(rows_after_load, Len(c.db["matches"]))
                      /\ task_succeeds("dbt")
    /\ UNCHANGED <<dag, upstream_fail, upstream_n, upstream_comp, validation_results>>
    /\ UNCHANGED <<gold>>
    /\ UNCHANGED <<writer, running, extractVars, files>>
    /\ UNCHANGED <<lpc, seasons, season_idx, total_loaded, failed_loads, loaded_now, calls,
                   first_call>>

\* load_postgres.py, lines 56-59 for the two calls of the basic load_to_bronze.
basic_files_to_load ==
    <<AllMatchesParquet(Seasons[1]), CompetitionsParquet,
      AllMatchesParquet(Seasons[2]), CompetitionsParquet>>

\* load_postgres.py, lines 71-74.
basic_table_name(f) == IF f[1] = "all_matches" THEN "all_matches" ELSE "competitions"

\* load_postgres.load_parquet_to_postgres, lines 61-93, over the files fl[i..]:
\* a missing file is skipped, every other file is appended to its table; the
\* to_sql of file number errAt raises, tables written before it keep their rows.
RECURSIVE basic_load(_, _, _, _, _)
basic_load(fs, d, fl, i, errAt) ==
    IF i > Len(fl)
      THEN [db |-> d, raised |-> FALSE]
      ELSE IF ~fs[fl[i]].exists
        THEN basic_load(fs, d, fl, i + 1, errAt)
        ELSE IF i = errAt \/ fs[fl[i]].corrupt
          THEN [db |-> d, raised |-> TRUE]
          ELSE basic_load(
                   fs,
                   [d EXCEPT ![basic_table_name(fl[i])] = to_sql(@, fs[fl[i]].rows, "append")],
                   fl, i + 1, errAt)

\* load_to_bronze of the basic DAG, lines 46-51.
basic_load_to_bronze ==
    /\ dag = "basic"
    /\ task = "load"
    /\ \E errAt \in 0..Len(basic_files_to_load) :
        LET r == basic_load(files, db, basic_files_to_load, 1, errAt)
        IN  /\ db' = r.db
            /\ db_errors' = (db_errors \/ errAt > 0)
            /\ IF r.raised
                 THEN /\ UNCHANGED rows_after_load
                      /\ task_raises
                 ELSE /\ rows_after_load' = Append(rows_after_load, Len(r.db["all_matches"]))
                      /\ task_succeeds("dbt")
    /\ UNCHANGED <<dag, upstream_fail, upstream_n, upstream_comp, validation_results>>
    /\ UNCHANGED <<gold>>
    /\ UNCHANGED <<writer, running, extractVars, files>>
    /\ UNCHANGED <<lpc, seasons, season_idx, total_loaded, failed_loads, loaded_now, calls,
                   first_call>>

\* The dbt tasks (enhanced DAG lines 223-257, basic DAG lines 59-75): an external
\* command that builds the gold tables from bronze, or fails. The basic DAG ends
\* with them.
dbt_transformation ==
    /\ task = "dbt"
    /\ \E ok \in BOOLEAN :
        IF ~ok
          THEN /\ UNCHANGED gold
               /\ task_raises
          ELSE /\ gold' = [exists |-> TRUE, row_count |-> Len(db[BronzeMatches(dag)])]
               /\ IF dag = "enhanced"
                    THEN task_succeeds("quality")
                    ELSE /\ task' = "idle"
                         /\ tries' = 0
                         /\ runs' = runs + 1
                         /\ run_status' = "SUCCESS"
                         /\ completed' = completed \cup {task}
    /\ UNCHANGED <<dag, upstream_fail, upstream_n, upstream_comp, validation_results>>
    /\ UNCHANGED <<rows_after_load, db_errors>>
    /\ UNCHANGED <<writer, running, extractVars, files, loadVars>>

\* run_data_quality_checks, lines 276-283: what the task reports for one gold
\* table. The statistics of the table are stored as they are; an empty table
\* (or one whose statistics could not be read) is logged as a warning.
table_check(g) ==
    [stats |-> g.row_count,
     logged |-> IF g.row_count = 0 THEN "warning" ELSE "none"]

\* run_data_quality_checks, lines 263-313: the per-table statistics never raise
\* (get_table_stats returns {} on error, an empty table is only a warning); the
\* freshness and metrics queries on gold.fact_matches raise when they fail.
run_data_quality_checks ==
    /\ dag = "enhanced"
    /\ task = "quality"
    /\ \E dberr \in BOOLEAN :
        /\ db_errors' = (db_errors \/ dberr)
        /\ IF dberr \/ ~gold.exists
             THEN task_raises
             ELSE task_succeeds("report")
    /\ UNCHANGED <<dag, upstream_fail, upstream_n, upstream_comp, validation_results>>
    /\ UNCHANGED <<rows_after_load, gold>>
    /\ UNCHANGED <<writer, running, extractVars, files, loadVars>>

\* send_success_report, lines 325-340, then the end of the run.
send_success_report ==
    /\ dag = "enhanced"
    /\ task = "report"
    /\ task' = "idle"
    /\ tries' = 0
    /\ runs' = runs + 1
    /\ run_status' = "SUCCESS"
    /\ completed' = completed \cup {task}
    /\ UNCHANGED <<dag, upstream_fail, upstream_n, upstream_comp, validation_results>>
    /\ UNCHANGED <<rows_after_load, db_errors, gold>>
    /\ UNCHANGED <<writer, running, extractVars, files, loadVars>>

NextPipeline ==
    \/ dag_run
    \/ extract_football_data
    \/ basic_extract_football_data
    \/ validate_extracted_data
    \/ load_to_bronze
    \/ basic_load_to_bronze
    \/ dbt_transformation
    \/ run_data_quality_checks
    \/ send_success_report

SpecPipeline == InitPipeline /\ [][NextPipeline]_vars

\* ------------------------------------------ validation over any landing directory

\* The files validate_extracted_data and the loader may find under one artifact
\* name: none, an unreadable one, a well-formed one of zero rows, or one of n rows.
FileStates(f) ==
    {Missing, Corrupt, Written(<<>>)}
        \cup {Written(TagRows(ApiMatches(Leagues[1], f[3], n), Leagues[1], f[3])) :
                n \in 1..MaxMatches}

\* An enhanced DAG run whose extraction task has ended, over any state of the
\* three required files.
InitValidate ==
    /\ impl = "enhanced"
    /\ ExtractorIdle
    /\ \E st \in [required_files -> UNION {FileStates(f) : f \in required_files}] :
        /\ \A f \in required_files : st[f] \in FileStates(f)
        /\ files = [f \in FileNames |-> IF f \in required_files THEN st[f] ELSE Missing]
    /\ LoaderIdle
    /\ dag = "enhanced"
    /\ upstream_fail = {}
    /\ upstream_n = [s \in SeasonSet |-> 0]
    /\ upstream_comp = 0
    /\ task = "validate"
    /\ tries = 0
    /\ runs = 0
    /\ run_status = "none"
    /\ rows_after_load = <<>>
    /\ db_errors = FALSE
    /\ gold = NoGold
    /\ completed = {"extract"}
    /\ validation_results = <<>>
    /\ WriterIdle
    /\ RunningIdle

NextValidate ==
    \/ validate_extracted_data
    \/ load_to_bronze
    \/ dbt_transformation
    \/ run_data_quality_checks
    \/ send_success_report

SpecValidate == InitValidate /\ [][NextValidate]_vars

\* ------------------------------------------------- one write to the landing store
\* _save_json and _save_parquet of foot_data_enhanced.py at the grain of the file
\* system: path.write_text and df.to_parquet open the artifact's final name for
\* writing, which truncates it, write the bytes, and close it. No temporary name
\* and no rename is used. The except branches log and raise again: nothing
\* removes or repairs the file.

\* Bound: writes to the landing store in one behaviour.
MaxWrites == 3

\* The artifacts FootballDataExtractor writes.
WrittenNames ==
    {MatchesJson(p[1], p[2]) : p \in Partitions}
        \cup {AllMatchesParquet(s) : s \in SeasonSet}
        \cup {CompetitionsParquet}

\* _save_json line 96 / _save_parquet line 107: the final path is opened for
\* writing and holds an incomplete file until the write ends.
save_open ==
    /\ impl = "enhanced"
    /\ writer.pc = "idle"
    /\ writer.writes < MaxWrites
    /\ \E f \in WrittenNames, n \in 0..MaxMatches :
        /\ writer' = [pc |-> "open", file |-> f, prev |-> files[f],
                      data |-> IF f \in {MatchesJson(p[1], p[2]) : p \in Partitions}
                                 THEN ApiMatches(f[2], f[3], n)
                                 ELSE TagRows(ApiMatches(f[2], f[3], n), f[2], f[3]),
                      writes |-> writer.writes + 1]
        /\ files' = [files EXCEPT ![f] = Corrupt]
    /\ UNCHANGED <<extractVars, loadVars, dagVars, running>>

\* The bytes are written and the file closed: the artifact is complete.
save_close ==
    /\ writer.pc = "open"
    /\ files' = [files EXCEPT ![writer.file] = Written(writer.data)]
    /\ writer' = [writer EXCEPT !.pc = "idle"]
    /\ UNCHANGED <<extractVars, loadVars, dagVars, running>>

\* The write raises (disk full, encoding) or the process is killed: lines 99-101
\* and 110-112 log and raise again, the incomplete file stays under its name.
save_interrupted ==
    /\ writer.pc = "open"
    /\ writer' = [writer EXCEPT !.pc = "idle"]
    /\ UNCHANGED <<files, extractVars, loadVars, dagVars, running>>

NextWrite ==
    \/ save_open
    \/ save_close
    \/ save_interrupted

InitWrite ==
    /\ impl = "enhanced"
    /\ ExtractorIdle
    /\ files = [f \in FileNames |-> Missing]
    /\ LoaderIdle
    /\ DagIdle
    /\ WriterIdle
    /\ RunningIdle

SpecWrite == InitWrite /\ [][NextWrite]_vars

\* --------------------------------------- two load_all_matches at the same time
\* load_all_matches(seasons=[2023, 2024]) called by two processes over the same
\* artifacts and the same database: the load_to_bronze task of the enhanced DAG
\* (line 186) and main() of load_postgres_enhanced.py (line 235). Each iteration
\* of the loop, lines 159-172, is one step; the steps of the two executions
\* interleave freely, nothing in the loader locks the table.

\* Both callers pass (or default to) [2023, 2024].
DefaultSeasons == Seasons

\* bronze.matches before the two executions: empty, or what an earlier
\* load_all_matches over the same artifacts left.
LoadedBefore(fs) ==
    LET first == fs[AllMatchesParquet(DefaultSeasons[1])].rows
        rest == fs[AllMatchesParquet(DefaultSeasons[2])].rows
    IN  first \o rest

InitOverlap ==
    /\ impl = "enhanced"
    /\ ExtractorIdle
    /\ \E n \in [SeasonSet -> {0, MaxMatches}] : files = LandingWith(n)
    /\ lpc = "idle"
    /\ seasons = DefaultSeasons
    /\ season_idx = 1
    /\ total_loaded = 0
    /\ failed_loads = <<>>
    /\ loaded_now = {}
    /\ calls = 0
    /\ first_call = NoCall
    /\ \E before \in {<<>>, LoadedBefore(files)} :
          db = [t \in TableNames |-> IF t = "matches" THEN before ELSE <<>>]
    /\ DagIdle
    /\ WriterIdle
    /\ RunningIdle

\* load_all_matches, lines 151-157, entered by execution i.
overlap_load_all_matches(i) ==
    /\ running[i].pc = "idle"
    /\ running' = [running EXCEPT ![i].pc = "loop"]
    /\ UNCHANGED <<extractVars, files, loadVars, dagVars, writer>>

\* One iteration of the loop of execution i, lines 159-172.
overlap_load_season(i) ==
    /\ running[i].pc = "loop"
    /\ running[i].season_idx <= Len(seasons)
    /\ \E dberr \in BOOLEAN :
        LET season == seasons[running[i].season_idx]
            r == load_parquet_to_postgres(files, db, AllMatchesParquet(season), "matches",
                                          if_exists_for(seasons, season), dberr)
        IN  /\ db' = r.db
            /\ running' =
                  [running EXCEPT
                      ![i].season_idx = @ + 1,
                      ![i].total_loaded = IF r.raised THEN @ ELSE @ + r.rows,
                      ![i].failed_loads = IF r.raised THEN Append(@, season) ELSE @]
    /\ UNCHANGED <<lpc, seasons, season_idx, total_loaded, failed_loads, loaded_now,
                   calls, first_call>>
    /\ UNCHANGED <<extractVars, files, dagVars, writer>>

\* lines 174-178: execution i returns its total_loaded.
overlap_load_all_matches_return(i) ==
    /\ running[i].pc = "loop"
    /\ running[i].season_idx > Len(seasons)
    /\ running' = [running EXCEPT ![i].pc = "done"]
    /\ UNCHANGED <<extractVars, files, loadVars, dagVars, writer>>

NextOverlap ==
    \/ \E i \in Executions : overlap_load_all_matches(i)
    \/ \E i \in Executions : overlap_load_season(i)
    \/ \E i \in Executions : overlap_load_all_matches_return(i)

SpecOverlap == InitOverlap /\ [][NextOverlap]_vars

\* ------------------------------------- an extraction over an earlier run's files
\* fetch_all_matches of foot_data_enhanced.py started in a landing directory that
\* is clean or holds what an earlier fetch_all_matches left there.

\* What a fetch_all_matches in which every request was answered, with n[s]
\* matches per league of season s, leaves in a clean landing directory.
LeftByEarlierRun(n) ==
    LET clean == [f \in FileNames |-> Missing]
        frames == frames_of(AllPartitions, 1, {}, n, TRUE)
    IN  save_season_files(json_saved(clean, {}, n), frames)

InitRerun ==
    /\ impl = "enhanced"
    /\ ExtractorIdle
    /\ \/ files = [f \in FileNames |-> Missing]
       \/ \E n \in [SeasonSet -> {0, MaxMatches}] : files = LeftByEarlierRun(n)
    /\ LoaderIdle
    /\ DagIdle
    /\ WriterIdle
    /\ RunningIdle

NextEnhanced ==
    \/ fetch_all_matches
    \/ make_request_200
    \/ make_request_429_retry
    \/ make_request_429_raise
    \/ make_request_error
    \/ inter_call_sleep
    \/ combine_and_save

SpecRerun == InitRerun /\ [][NextEnhanced]_vars

\* ------------------------------------------------------------ extraction claims

\* C4: one call of FootballDataExtractor._make_request issues at most
\* max_retries + 1 GET requests and performs at most max_retries cooldown sleeps,
\* and a call that has received max_retries + 1 responses, all of them 429, is
\* over and has raised to its caller.
C4_BoundedRetry ==
    impl = "enhanced" =>
        /\ gets = Len(resp)
        /\ gets <= MaxRetries + 1
        /\ sleeps <= MaxRetries
        /\ (All429(resp) /\ Len(resp) >= MaxRetries + 1) => reqResult = "raised"
        /\ (reqResult = "returned" \/ reqResult = "raised") => pc # "get"

\* C4 witness: every response was 429 and the call ended by raising after
\* max_retries + 1 requests and max_retries sleeps.
C4_Witness ==
    /\ impl = "enhanced"
    /\ reqResult = "raised"
    /\ All429(resp)
    /\ gets = MaxRetries + 1
    /\ sleeps = MaxRetries

\* C5: when a partition's request is answered 429 and then 200 with a non-empty
\* matches list, exactly one rate-limit wait and two GETs were performed for it,
\* its JSON artifact is written and its rows are in the frames; and when the
\* extraction call is over every such partition's rows are in the returned frame
\* and in the season's parquet artifact.
C5_RetryThenSuccess ==
    impl \in {"enhanced", "foot_data"} =>
        /\ (reqResult = "returned" /\ resp = <<"429", "200">> /\ outcome[cur] = "ok") =>
              /\ sleeps = 1
              /\ gets = 2
              /\ files[MatchesJson(cur[1], cur[2])].exists
              /\ files[MatchesJson(cur[1], cur[2])].rows # <<>>
              /\ HasRows(all_frames, cur)
        /\ pc = "done" =>
              \A p \in Partitions :
                  outcome[p] = "ok" =>
                      /\ result = "returned"
                      /\ HasRows(all_frames, p)
                      /\ HasRows(files[AllMatchesParquet(p[2])].rows, p)

\* C5 witness: PL/2023 was answered 429 then 200 with matches, in the enhanced
\* extractor.
C5_Witness ==
    /\ impl = "enhanced"
    /\ pc = "sleep"
    /\ cur = <<"PL", 2023>>
    /\ resp = <<"429", "200">>
    /\ outcome[cur] = "ok"

\* C6: when an extraction call is over, a request was issued for every partition
\* of the call, whatever failed on the way.
C6_SiblingsRequested == pc = "done" => requested = Range(parts)

\* C7: after fetch_all_matches every partition whose request failed is listed in
\* failed_extractions.
C7_FailuresRecorded ==
    (impl = "enhanced" /\ pc = "done") =>
        \A p \in Partitions : outcome[p] = "failed" => p \in Range(failed_extractions)

\* C8: fetch_all_matches raises if and only if every partition's request failed.
C8_RaisesIffAllFailed ==
    (impl = "enhanced" /\ pc = "done") =>
        (result = "raised" <=> \A p \in Partitions : outcome[p] = "failed")

\* C9: after extraction, a season for which upstream returned an empty result
\* and no rows at all has a flattened artifact that exists and parses to zero rows.
C9_EmptyArtifactStaged ==
    (impl = "enhanced" /\ pc = "done" /\ result = "returned") =>
        \A s \in SeasonSet :
            ( /\ \E l \in LeagueSet : outcome[<<l, s>>] = "empty"
              /\ \A l \in LeagueSet : outcome[<<l, s>>] # "ok" )
                => file_status(files[AllMatchesParquet(s)]) = "EMPTY"

\* ---------------------------------------------------------------- load claims

RowCount(rows, s) == Len(SeasonData(rows, s))

\* C1: a second call of load_all_matches over the same seasons list and unchanged
\* artifacts, with the same seasons failing, leaves bronze.matches with the
\* per-season row counts the first call left.
C1_LoadTwiceSameCounts ==
    ( /\ lpc = "done"
      /\ calls = 2
      /\ seasons = first_call.seasons
      /\ failed_loads = first_call.failed )
        => \A s \in SeasonSet :
              RowCount(db["matches"], s) = RowCount(first_call.matches, s)

\* C3: at every point of a call of load_all_matches, the rows of every season the
\* call has loaded so far are still in bronze.matches.
C3_NoOtherPartitionDropped ==
    lpc \in {"loop", "done"} =>
        \A s \in loaded_now :
            RowCount(db["matches"], s) >= Len(files[AllMatchesParquet(s)].rows)

\* ------------------------------------------------------------ pipeline claims

\* C2: with the same upstream data and no database error, every completed load
\* task of every DAG run leaves the bronze matches table with the row count the
\* first one left.
C2_RerunSameRowCount ==
    ~db_errors =>
        \A i \in 1..Len(rows_after_load) : rows_after_load[i] = rows_after_load[1]

\* C10: a run of the enhanced DAG ends with one of SUCCESS, PARTIAL, FAILED; it
\* ends FAILED when every partition's request fails, and when exactly one of the
\* three leagues fails (in both seasons) and the run does not fail, it ends
\* PARTIAL.
C10_FinalStatus ==
    (dag = "enhanced" /\ task = "idle" /\ runs >= 1) =>
        /\ run_status \in {"SUCCESS", "PARTIAL", "FAILED"}
        /\ upstream_fail = Partitions => run_status = "FAILED"
        /\ ( /\ \E l \in LeagueSet : upstream_fail = {l} \X SeasonSet
             /\ run_status # "FAILED" ) => run_status = "PARTIAL"

\* C11: in every extraction trace of foot_data_enhanced.fetch_all_matches and of
\* foot_data.fetch_matches_save, one inter-call cooldown lies between the end of
\* each partition's request and the start of the next, whether the earlier
\* request succeeded or failed: when the request of partition number n is about
\* to be issued, n - 1 cooldowns have been taken.
C11_CooldownBetweenRequests ==
    (impl \in {"enhanced", "foot_data"} /\ pc = "get" /\ gets = 0)
        => cooldowns = part - 1

C13_LoadOnlyValidated ==
    runs = 0 =>
        /\ (\E t \in TableNames : db[t] # <<>>) => "validate" \in completed
        /\ \A s \in SeasonSet :
              SeasonData(db["matches"], s) # <<>>
                  => file_status(files[AllMatchesParquet(s)]) = "OK"

\* C14: validation classifies each expected artifact with exactly one status.
\* Once validate_extracted_data has run, its mapping has exactly the three
\* expected artifacts as keys, and the entry of an artifact is MISSING exactly
\* when the file is absent, CORRUPTED exactly when it exists and cannot be
\* parsed, EMPTY exactly when it parses to zero rows, and OK with the row count
\* exactly when it parses to that many (> 0) rows.
C14_ValidationClassifies ==
    validation_results # <<>> =>
        /\ DOMAIN validation_results = required_files
        /\ \A f \in required_files :
            LET v == validation_results[f]
                a == files[f]
            IN  /\ v = <<"MISSING">> <=> ~a.exists
                /\ v = <<"CORRUPTED">> <=> (a.exists /\ a.corrupt)
                /\ v = <<"EMPTY">> <=> (a.exists /\ ~a.corrupt /\ Len(a.rows) = 0)
                /\ v = <<"OK", Len(a.rows)>> <=> (a.exists /\ ~a.corrupt /\ Len(a.rows) > 0)

C14_Witness ==
    /\ validation_results # <<>>
    /\ validation_results[AllMatchesParquet(Seasons[1])] = <<"EMPTY">>
    /\ validation_results[AllMatchesParquet(Seasons[2])] = <<"OK", MaxMatches>>
    /\ validation_results[CompetitionsParquet] = <<"CORRUPTED">>

\* C15: validation raises if and only if at least one expected artifact is
\* MISSING or CORRUPTED. Once it has run, the validation task has succeeded
\* exactly when no expected file is absent or unparseable, so EMPTY alone does
\* not fail it; and when the load task then succeeds without a database error,
\* every season whose artifact is OK has exactly the artifact's rows in
\* bronze.matches (bronze was empty when the run started), also when the other
\* season's artifact is EMPTY.
C15_RaisesIffMissingOrCorrupt ==
    /\ validation_results # <<>> =>
          ("validate" \in completed
              <=> \A f \in required_files : files[f].exists /\ ~files[f].corrupt)
    /\ ("load" \in completed /\ ~db_errors) =>
          \A s \in SeasonSet :
              files[AllMatchesParquet(s)].rows # <<>>
                  => SeasonData(db["matches"], s) = files[AllMatchesParquet(s)].rows

C15_Witness ==
    /\ "load" \in completed
    /\ ~db_errors
    /\ validation_results # <<>>
    /\ validation_results[AllMatchesParquet(Seasons[1])] = <<"EMPTY">>
    /\ validation_results[AllMatchesParquet(Seasons[2])] = <<"OK", MaxMatches>>
    /\ Len(db["matches"]) = MaxMatches

\* C16: a MISSING or CORRUPTED artifact blocks loading for its own partition
\* only. When an enhanced DAG run has ended and no database error occurred,
\* every season whose artifact was OK has its rows in bronze.matches, also when
\* another expected artifact was MISSING or CORRUPTED.
C16_OkPartitionStillLoaded ==
    (task = "idle" /\ runs >= 1 /\ ~db_errors /\ validation_results # <<>>) =>
        \A s \in SeasonSet :
            validation_results[AllMatchesParquet(s)][1] = "OK"
                => SeasonData(db["matches"], s) # <<>>

\* C17: load_all_matches fails (raises) if and only if zero partitions were
\* loaded successfully. The call returns normally (lpc = "done") only when the
\* load of at least one season of its list did not fail.
C17_RaisesIffNoneLoaded ==
    lpc = "done" => \E i \in 1..Len(seasons) : seasons[i] \notin Range(failed_loads)

\* C18: each season's load is committed or rolled back as a unit and one
\* season's failure does not affect another's. When a call of load_all_matches
\* over distinct seasons in which some season's load failed has returned,
\* bronze.matches holds, for
\* every season, exactly the rows of its artifact if the call loaded it, and no
\* rows otherwise (none of a failed season, none left from an earlier call).
C18_FailedSeasonLeavesOthersExact ==
    (lpc = "done" /\ failed_loads # <<>> /\ Cardinality(Range(seasons)) = Len(seasons)) =>
        \A s \in SeasonSet :
            SeasonData(db["matches"], s) =
                IF s \in loaded_now THEN files[AllMatchesParquet(s)].rows ELSE <<>>

\* C19: a landing-store write is atomic for downstream readers. In every state,
\* also while _save_json or _save_parquet is under way and after it was
\* interrupted, no artifact name holds a partially written file, and the name
\* being written holds either the previous complete artifact (or none) or the
\* new complete one.
C19_WriteAtomic ==
    /\ \A f \in FileNames : ~files[f].corrupt
    /\ writer.pc = "open" => files[writer.file] \in {writer.prev, Written(writer.data)}

\* The identifiers of the records of partition p in the flattened artifact of
\* p's season, and in p's nested-JSON artifact.
FlattenedRecords(p) ==
    {r.id : r \in {x \in Range(files[AllMatchesParquet(p[2])].rows) : x.competition_code = p[1]}}

JsonRecords(p) == {m.id : m \in Range(files[MatchesJson(p[1], p[2])].rows)}

\* C20: the nested-JSON artifact and the flattened artifact of a partition never
\* diverge. In every state after a run of fetch_all_matches, also a run with
\* failed or empty partitions and a run that follows an earlier run, the records
\* of each (league, season) in all_matches_{season}.parquet are the records of
\* matches_{league}_{season}.json.
C20_JsonAndFlattenedAgree ==
    (impl = "enhanced" /\ pc = "done") =>
        \A p \in Partitions : FlattenedRecords(p) = JsonRecords(p)

\* The artifact files of kind k present in the landing (or raw) directory.
ArtifactsOfKind(k) == {f \in FileNames : files[f].exists /\ f[1] = k}

C22_EmptyTableReportedFail ==
    ("quality" \in completed /\ gold.exists /\ gold.row_count = 0)
        => table_check(gold).logged = "FAIL"

\* C23: the aggregate result of the quality gate is FAIL when a checked table
\* is FAIL, and send_success_report is then not reached: the report task is
\* never scheduled, and the run never ends in SUCCESS, over a gold table with
\* no rows.
C23_FailBlocksSuccessReport ==
    (dag = "enhanced" /\ gold.exists /\ gold.row_count = 0)
        => /\ task # "report"
           /\ "report" \notin completed

\* C24: failure classes have distinct retry policies. A 4xx response other
\* than 429 is never followed by another request of the same partition, and a
\* 5xx response is retried: a partition is given up on a 5xx response only
\* when the retry bound is used up (max_retries + 1 requests were made).
C24_ServerErrorRetried ==
    (impl = "enhanced" /\ resp # <<>>)
        => /\ \A i \in 1..Len(resp) : resp[i] = "4xx" => i = Len(resp)
           /\ (pc = "sleep" /\ resp[Len(resp)] = "5xx") => gets = MaxRetries + 1

\* Every request of the running fetch_all_matches was answered with a matches
\* list (after 429 retries or not).
AllAnswered == \A p \in Partitions : outcome[p] \in {"ok", "empty"}

C26_OverlapKeepsEachSeasonOnce ==
    (\A i \in Executions : running[i].pc = "done" /\ running[i].failed_loads = <<>>)
        => \A s \in Range(seasons) :
              SeasonData(db["matches"], s) = files[AllMatchesParquet(s)].rows

\* C27: no stale artifact survives a run. After fetch_all_matches returned
\* normally, every all_matches_{season}.parquet in the landing directory was
\* written by this run: the run obtained rows of that season and the file
\* holds exactly those rows.
C27_NoStaleArtifact ==
    (impl = "enhanced" /\ pc = "done" /\ result = "returned")
        => \A s \in SeasonSet :
              files[AllMatchesParquet(s)].exists
                  => /\ SeasonData(all_frames, s) # <<>>
                     /\ files[AllMatchesParquet(s)].rows = SeasonData(all_frames, s)

\* The ids of the matches that the successful, non-empty requests of season s
\* returned in the running call, as their JSON artifacts record them.
ReturnedIds(s) ==
    UNION {{files[MatchesJson(l, s)].rows[j].id :
                j \in 1..Len(files[MatchesJson(l, s)].rows)} :
           l \in {k \in LeagueSet : outcome[<<k, s>>] = "ok"}}

\* C28: tagging and the per-season split are exact. After fetch_all_matches
\* returned, for every season S of which this run obtained rows, every row of
\* all_matches_{S}.parquet carries season_year = S and the competition_code of
\* the league whose request returned it, and the file holds exactly the rows
\* of the successful, non-empty (league, S) partitions of this run, each once.
C28_TaggingAndSplitExact ==
    (impl = "enhanced" /\ pc = "done" /\ result = "returned")
        => \A s \in SeasonSet :
              (\E l \in LeagueSet : outcome[<<l, s>>] = "ok")
                  => LET rows == files[AllMatchesParquet(s)].rows
                     IN  /\ files[AllMatchesParquet(s)].exists
                         /\ \A i \in 1..Len(rows) :
                               /\ rows[i].season_year = s
                               /\ rows[i].id[2] = s
                               /\ rows[i].competition_code = rows[i].id[1]
                         /\ {rows[i].id : i \in 1..Len(rows)} = ReturnedIds(s)
                         /\ Len(rows) = Cardinality(ReturnedIds(s))

\* C28 witness: the call returned; in the first season one league returned
\* matches, one failed and one returned none, and the second season has rows too.
C28_Witness ==
    /\ impl = "enhanced"
    /\ pc = "done"
    /\ result = "returned"
    /\ outcome[<<Leagues[1], Seasons[1]>>] = "ok"
    /\ outcome[<<Leagues[2], Seasons[1]>>] = "failed"
    /\ outcome[<<Leagues[3], Seasons[1]>>] = "empty"
    /\ \E l \in LeagueSet : outcome[<<l, Seasons[2]>>] = "ok"
    /\ Len(files[AllMatchesParquet(Seasons[1])].rows) = MaxMatches

\* How often season s occurs in the list seq.
Occurrences(seq, s) == Cardinality({i \in 1..Len(seq) : seq[i] = s})

RECURSIVE SumOver(_, _)
SumOver(f, S) ==
    IF S = {}
      THEN 0
      ELSE LET x == CHOOSE y \in S : TRUE
           IN  f[x] + SumOver(f, S \ {x})

C30_EmptyArtifactLeavesStore ==
    [][(/\ lpc = "loop"
        /\ season_idx <= Len(seasons)
        /\ season_idx' = season_idx + 1
        /\ files[AllMatchesParquet(seasons[season_idx])] = Written(<<>>))
            => /\ db' = db
               /\ total_loaded' = total_loaded
               /\ failed_loads' = failed_loads]_vars

\* C30 witness: the second call has just loaded its first season (the 'replace'
\* one) from a zero-row artifact, and bronze.matches still holds the rows the
\* first call loaded.
C30_Witness ==
    /\ lpc = "loop"
    /\ calls = 1
    /\ season_idx = 2
    /\ files[AllMatchesParquet(seasons[1])] = Written(<<>>)
    /\ failed_loads = <<>>
    /\ total_loaded = 0
    /\ db["matches"] # <<>>

====
